---- MODULE Spec2Model ----
(***************************************************************************)
(* The note repository of DyslexiaDrawNote: the four store variants of     *)
(* the sources (the first MemStorage, DatabaseStorage, the second          *)
(* MemStorage and the module-level array store) behind the IStorage        *)
(* contract, and the favourite-toggle handler that calls two of its        *)
(* operations.                                                             *)
(*                                                                         *)
(* Five specifications share the variables.  Spec is the repository        *)
(* called directly, one call at a time.  SpecHttp is the six note routes   *)
(* of registerRoutes over the same stores: requests, responses, rejected   *)
(* database statements, and a PUT or PATCH that waits for the database     *)
(* while other requests are served.  SpecBoth runs the second MemStorage   *)
(* and DatabaseStorage side by side on the same calls.  SpecCanvas is the  *)
(* DrawingCanvas component: its bitmap, its history and the handlers of    *)
(* its events.  SpecOcr is the training-data directory of the OCR routes   *)
(* with upload, listing and deletion.                                      *)
(*                                                                         *)
(* A JavaScript object is a function from its own keys to values, so a     *)
(* key that was never written is absent from the DOMAIN; `null` is the     *)
(* value Null.  Times are integer clock readings of `new Date()`.          *)
(***************************************************************************)
EXTENDS Integers, Sequences, FiniteSets, TLC

\* ------------------------------------------------------------------ bounds
\* last clock reading the model lets the clock reach
MaxClock == 1
\* create, update, delete and favourite calls served after construction
MaxCalls == 3
\* most entries the canvas history is let grow to
MaxHistory == 3

\* ------------------------------------------------------------- JS values
Null == "null"

\* {...a, ...b}: the keys of b win
Spread(a, b) == b @@ a

\* f[k] || null for a string-valued key: undefined, null and "" are falsy
OrNull(f, k) == IF k \in DOMAIN f /\ f[k] # "" /\ f[k] # Null THEN f[k] ELSE Null

\* f[k] || false for a boolean-valued key
OrFalse(f, k) == IF k \in DOMAIN f THEN f[k] ELSE FALSE

\* the empty object {}
EmptyObject == [k \in {} |-> Null]

\* results of the Promise-returning methods
RetNote(n) == [kind |-> "note", note |-> n]
RetUndefined == [kind |-> "undefined"]
RetBool(b) == [kind |-> "bool", value |-> b]
RetList(s) == [kind |-> "list", notes |-> s]

\* -------------------------------------------------------- sequence helpers
\* Array.prototype.findIndex with the callback x => x[field] === value: the
\* first match, 0 for the source's -1
FindIndex(s, field, value) ==
  LET hits == {i \in 1..Len(s) : s[i][field] = value}
  IN IF hits = {} THEN 0 ELSE CHOOSE i \in hits : \A j \in hits : i <= j

\* Array.prototype.splice(index, 1)
Splice(s, i) == [j \in 1..(Len(s) - 1) |-> IF j < i THEN s[j] ELSE s[j + 1]]

\* the stable Array.prototype.sort with comparator b.updatedAt - a.updatedAt:
\* x goes before the first element whose updatedAt is strictly smaller
RECURSIVE InsertDesc(_, _)
InsertDesc(sorted, x) ==
  IF sorted = << >> THEN << x >>
  ELSE IF Head(sorted).updatedAt < x.updatedAt THEN << x >> \o sorted
  ELSE << Head(sorted) >> \o InsertDesc(Tail(sorted), x)

RECURSIVE SortFrom(_, _, _)
SortFrom(s, i, acc) ==
  IF i > Len(s) THEN acc ELSE SortFrom(s, i + 1, InsertDesc(acc, s[i]))

SortByUpdatedAtDesc(s) == SortFrom(s, 1, << >>)

\* ------------------------------------------------------------ JS Map<number, Note>
\* a Map is its entries in insertion order
MapValues(m) == [i \in 1..Len(m) |-> m[i].value]

MapHas(m, k) == \E i \in 1..Len(m) : m[i].key = k

MapGet(m, k) ==
  LET i == FindIndex(m, "key", k)
  IN IF i = 0 THEN RetUndefined ELSE RetNote(m[i].value)

\* set on a present key keeps the entry's position
MapSet(m, k, v) ==
  LET i == FindIndex(m, "key", k)
  IN IF i = 0 THEN Append(m, [key |-> k, value |-> v])
     ELSE [m EXCEPT ![i] = [key |-> k, value |-> v]]

MapDelete(m, k) ==
  LET i == FindIndex(m, "key", k)
  IN IF i = 0 THEN m ELSE Splice(m, i)

\* ------------------------------------------------ first MemStorage (Map store)
\* the Map's values as they are, without the sort
Mem1GetAllNotes_InsertionOrder(m) == RetList(MapValues(m))

Mem1GetAllNotes(m) == RetList(SortByUpdatedAtDesc(MapValues(m)))

Mem1GetNote(m, id) == MapGet(m, id)

\* { id, ...insertNote, createdAt: now, updatedAt: now }
Mem1CreateNote(m, cur, insertNote, t) ==
  LET id == cur
      note == Spread(Spread([id |-> id], insertNote),
                     [createdAt |-> t, updatedAt |-> t])
  IN [notes |-> MapSet(m, id, note), nextId |-> cur + 1, ret |-> RetNote(note)]

\* { ...existingNote, ...updatedFields, updatedAt: new Date() }
\* the clock reading written to createdAt instead of updatedAt
Mem1UpdateNote_StampsCreatedAt(m, id, updatedFields, t) ==
  LET existingNote == MapGet(m, id)
  IN IF existingNote.kind = "undefined"
     THEN [notes |-> m, ret |-> RetUndefined]
     ELSE LET updatedNote == Spread(Spread(existingNote.note, updatedFields),
                                    [createdAt |-> t])
          IN [notes |-> MapSet(m, id, updatedNote), ret |-> RetNote(updatedNote)]

Mem1UpdateNote(m, id, updatedFields, t) ==
  LET existingNote == MapGet(m, id)
  IN IF existingNote.kind = "undefined"
     THEN [notes |-> m, ret |-> RetUndefined]
     ELSE LET updatedNote == Spread(Spread(existingNote.note, updatedFields),
                                    [updatedAt |-> t])
          IN [notes |-> MapSet(m, id, updatedNote), ret |-> RetNote(updatedNote)]

Mem1DeleteNote(m, id) ==
  IF ~MapHas(m, id)
  THEN [notes |-> m, ret |-> RetBool(FALSE)]
  ELSE [notes |-> MapDelete(m, id), ret |-> RetBool(TRUE)]

\* ----------------------------------------------- second MemStorage (notesMap)
Mem2GetAllNotes(m) == RetList(SortByUpdatedAtDesc(MapValues(m)))

Mem2GetNote(m, id) == MapGet(m, id)

\* the id taken from the size of the Map instead of the counter
Mem2CreateNote_IdFromSize(m, cur, insertNote, t) ==
  LET id == Len(m) + 1
      note == [id |-> id,
               title |-> insertNote.title,
               content |-> insertNote.content,
               preview |-> OrNull(insertNote, "preview"),
               recognizedText |-> OrNull(insertNote, "recognizedText"),
               isFavorite |-> OrFalse(insertNote, "isFavorite"),
               createdAt |-> t,
               updatedAt |-> t]
  IN [notes |-> MapSet(m, id, note), nextId |-> cur + 1, ret |-> RetNote(note)]

Mem2CreateNote(m, cur, insertNote, t) ==
  LET id == cur
      note == [id |-> id,
               title |-> insertNote.title,
               content |-> insertNote.content,
               preview |-> OrNull(insertNote, "preview"),
               recognizedText |-> OrNull(insertNote, "recognizedText"),
               isFavorite |-> OrFalse(insertNote, "isFavorite"),
               createdAt |-> t,
               updatedAt |-> t]
  IN [notes |-> MapSet(m, id, note), nextId |-> cur + 1, ret |-> RetNote(note)]

\* no check that the note exists: the merge is stored under any id
Mem2UpdateNote_Upsert(m, id, updatedFields, t) ==
  LET existingNote == MapGet(m, id)
      updatedNote == Spread(Spread(IF existingNote.kind = "undefined"
                                   THEN EmptyObject ELSE existingNote.note,
                                   updatedFields),
                            [updatedAt |-> t])
  IN [notes |-> MapSet(m, id, updatedNote), ret |-> RetNote(updatedNote)]

Mem2UpdateNote(m, id, updatedFields, t) ==
  LET existingNote == MapGet(m, id)
  IN IF existingNote.kind = "undefined"
     THEN [notes |-> m, ret |-> RetUndefined]
     ELSE LET updatedNote == Spread(Spread(existingNote.note, updatedFields),
                                    [updatedAt |-> t])
          IN [notes |-> MapSet(m, id, updatedNote), ret |-> RetNote(updatedNote)]

Mem2DeleteNote(m, id) ==
  IF ~MapHas(m, id)
  THEN [notes |-> m, ret |-> RetBool(FALSE)]
  ELSE [notes |-> MapDelete(m, id), ret |-> RetBool(TRUE)]

\* ------------------------------------------------ array store (notes, nextId)
\* returns the array itself, in insertion order
\* notes.slice(1): the first element left out
ArrGetAllNotes_SkipsFirst(a) == RetList(IF a = << >> THEN a ELSE Tail(a))

ArrGetAllNotes(a) == RetList(a)

ArrGetNote(a, id) ==
  LET i == FindIndex(a, "id", id)
  IN IF i = 0 THEN RetUndefined ELSE RetNote(a[i])

\* the element pushed is not the object returned: it is stamped on its own
ArrCreateNote_PushesACopy(a, cur, note, t1, t2) ==
  LET newNote == Spread(Spread([id |-> cur], note),
                        [createdAt |-> t1, updatedAt |-> t2])
      pushed == Spread(newNote, [createdAt |-> t2])
  IN [notes |-> Append(a, pushed), nextId |-> cur + 1, ret |-> RetNote(newNote)]

\* createdAt and updatedAt are two evaluations of new Date(): t1, then t2
ArrCreateNote(a, cur, note, t1, t2) ==
  LET newNote == Spread(Spread([id |-> cur], note),
                        [createdAt |-> t1, updatedAt |-> t2])
  IN [notes |-> Append(a, newNote), nextId |-> cur + 1, ret |-> RetNote(newNote)]

\* the spreads in the wrong order: { ...note, ...notes[index], updatedAt }
ArrUpdateNote_StoredWins(a, id, note, t) ==
  LET index == FindIndex(a, "id", id)
  IN IF index = 0
     THEN [notes |-> a, ret |-> RetUndefined]
     ELSE LET updatedNote == Spread(Spread(note, a[index]), [updatedAt |-> t])
          IN [notes |-> [a EXCEPT ![index] = updatedNote],
              ret |-> RetNote(updatedNote)]

ArrUpdateNote(a, id, note, t) ==
  LET index == FindIndex(a, "id", id)
  IN IF index = 0
     THEN [notes |-> a, ret |-> RetUndefined]
     ELSE LET updatedNote == Spread(Spread(a[index], note), [updatedAt |-> t])
          IN [notes |-> [a EXCEPT ![index] = updatedNote],
              ret |-> RetNote(updatedNote)]

\* no check for -1: splice(-1, 1) removes the last element
ArrDeleteNote_NoGuard(a, id) ==
  LET index == FindIndex(a, "id", id)
  IN IF index = 0
     THEN [notes |-> IF a = << >> THEN a ELSE Splice(a, Len(a)),
           ret |-> RetBool(TRUE)]
     ELSE [notes |-> Splice(a, index), ret |-> RetBool(TRUE)]

ArrDeleteNote(a, id) ==
  LET index == FindIndex(a, "id", id)
  IN IF index = 0
     THEN [notes |-> a, ret |-> RetBool(FALSE)]
     ELSE [notes |-> Splice(a, index), ret |-> RetBool(TRUE)]

\* ------------------------------------------------------ the notes table (db)
\* the columns the table fills in for a row that does not supply them:
\* a serial id and the two timestamps at the time of the insert
NotesColumnDefaults(serial, t) ==
  [id |-> serial, createdAt |-> t, updatedAt |-> t]

\* db.select().from(notes): the rows in table order
DbSelectFrom(tbl) == tbl

\* db.select().from(notes).where(eq(notes.id, id))
DbSelectWhereId(tbl, id) == SelectSeq(tbl, LAMBDA row : row.id = id)

\* db.insert(notes).values(v).returning()
DbInsertReturning(tbl, serial, v, t) ==
  LET row == Spread(NotesColumnDefaults(serial, t), v)
  IN [notes |-> Append(tbl, row), nextId |-> serial + 1, returning |-> << row >>]

\* db.update(notes).set(data).where(eq(notes.id, id)).returning()
DbUpdateSetWhereId(tbl, id, data) ==
  LET matched == SelectSeq(tbl, LAMBDA row : row.id = id)
  IN [notes |-> [i \in 1..Len(tbl) |->
                   IF tbl[i].id = id THEN Spread(tbl[i], data) ELSE tbl[i]],
      returning |-> [i \in 1..Len(matched) |-> Spread(matched[i], data)]]

\* db.delete(notes).where(eq(notes.id, id)).returning({ id: notes.id })
DbDeleteWhereId(tbl, id) ==
  [notes |-> SelectSeq(tbl, LAMBDA row : row.id # id),
   returning |-> SelectSeq(tbl, LAMBDA row : row.id = id)]

\* ----------------------------------------------------------- DatabaseStorage
DbGetAllNotes(tbl) == RetList(DbSelectFrom(tbl))

DbGetNote(tbl, id) ==
  LET rows == DbSelectWhereId(tbl, id)
  IN IF rows = << >> THEN RetUndefined ELSE RetNote(rows[1])

DbCreateNote(tbl, serial, insertNote, t) ==
  LET noteToInsert == [title |-> insertNote.title,
                       content |-> insertNote.content,
                       preview |-> OrNull(insertNote, "preview"),
                       recognizedText |-> OrNull(insertNote, "recognizedText"),
                       isFavorite |-> OrFalse(insertNote, "isFavorite")]
      done == DbInsertReturning(tbl, serial, noteToInsert, t)
  IN [notes |-> done.notes, nextId |-> done.nextId,
      ret |-> RetNote(done.returning[1])]

\* updatedAt left out of the SET clause
DbUpdateNote_NoRestamp(tbl, id, updatedFields, t) ==
  LET existingNote == DbGetNote(tbl, id)
  IN IF existingNote.kind = "undefined"
     THEN [notes |-> tbl, ret |-> RetUndefined]
     ELSE LET done == DbUpdateSetWhereId(tbl, id, updatedFields)
          IN [notes |-> done.notes,
              ret |-> IF done.returning = << >> THEN RetUndefined
                      ELSE RetNote(done.returning[1])]

DbUpdateNote(tbl, id, updatedFields, t) ==
  LET existingNote == DbGetNote(tbl, id)
  IN IF existingNote.kind = "undefined"
     THEN [notes |-> tbl, ret |-> RetUndefined]
     ELSE LET updateData == Spread(updatedFields, [updatedAt |-> t])
              done == DbUpdateSetWhereId(tbl, id, updateData)
          IN [notes |-> done.notes,
              ret |-> IF done.returning = << >> THEN RetUndefined
                      ELSE RetNote(done.returning[1])]

DbDeleteNote(tbl, id) ==
  LET result == DbDeleteWhereId(tbl, id)
  IN [notes |-> result.notes, ret |-> RetBool(Len(result.returning) > 0)]

\* ------------------------------------------------------------------ IStorage
Variants == {"mem1", "db", "mem2", "arr"}

IsMem(v) == v \in {"mem1", "mem2"}

GetAllNotes(v, s) ==
  CASE v = "mem1" -> Mem1GetAllNotes(s)
    [] v = "mem2" -> Mem2GetAllNotes(s)
    [] v = "arr" -> ArrGetAllNotes(s)
    [] v = "db" -> DbGetAllNotes(s)

GetNote(v, s, id) ==
  CASE v = "mem1" -> Mem1GetNote(s, id)
    [] v = "mem2" -> Mem2GetNote(s, id)
    [] v = "arr" -> ArrGetNote(s, id)
    [] v = "db" -> DbGetNote(s, id)

\* t1 is the clock when the call starts, t2 the clock at a second reading
CreateNote(v, s, cur, insertNote, t1, t2) ==
  CASE v = "mem1" -> Mem1CreateNote(s, cur, insertNote, t1)
    [] v = "mem2" -> Mem2CreateNote(s, cur, insertNote, t1)
    [] v = "arr" -> ArrCreateNote(s, cur, insertNote, t1, t2)
    [] v = "db" -> DbCreateNote(s, cur, insertNote, t1)

UpdateNote(v, s, id, updatedFields, t) ==
  CASE v = "mem1" -> Mem1UpdateNote(s, id, updatedFields, t)
    [] v = "mem2" -> Mem2UpdateNote(s, id, updatedFields, t)
    [] v = "arr" -> ArrUpdateNote(s, id, updatedFields, t)
    [] v = "db" -> DbUpdateNote(s, id, updatedFields, t)

DeleteNote(v, s, id) ==
  CASE v = "mem1" -> Mem1DeleteNote(s, id)
    [] v = "mem2" -> Mem2DeleteNote(s, id)
    [] v = "arr" -> ArrDeleteNote(s, id)
    [] v = "db" -> DbDeleteNote(s, id)

\* the notes a store holds, in stored order, and the keys it holds them under
StoredNotes(v, s) == IF IsMem(v) THEN MapValues(s) ELSE s

StoredIds(v, s) ==
  IF IsMem(v) THEN {s[i].key : i \in 1..Len(s)} ELSE {s[i].id : i \in 1..Len(s)}

\* ---------------------------------------------------------------- the inputs
\* the two notes the MemStorage constructors create
SeedNotes ==
  << [title |-> "Welcome to DyslexiNote", content |-> "", preview |-> "",
      recognizedText |-> "Welcome to DyslexiNote, a dyslexia-friendly note-taking app.",
      isFavorite |-> TRUE],
     [title |-> "How to Use", content |-> "", preview |-> "",
      recognizedText |-> "Draw on the canvas and use the text recognition to convert your handwriting to text.",
      isFavorite |-> FALSE] >>

\* InsertNote values: title and content, the three optional keys omitted or given
InsertNotes ==
  { [title |-> "A", content |-> "x"],
    [title |-> "B", content |-> "y", preview |-> "p", recognizedText |-> "r",
     isFavorite |-> TRUE] }

\* Partial<InsertNote> values: one key, the keys of a PUT body, no key
PartialNotes ==
  { [isFavorite |-> TRUE],
    [title |-> "C", content |-> "z"],
    EmptyObject }

\* bodies of PATCH /api/notes/:id/favorite
FavoriteBodies == { [isFavorite |-> TRUE], [isFavorite |-> FALSE], EmptyObject }

\* Boolean(isFavorite) of the destructured body
BooleanOfIsFavorite(body) ==
  IF "isFavorite" \in DOMAIN body THEN body.isFavorite ELSE FALSE

\* ids the calls are made with: every id handed out so far, and the next one,
\* which no note has yet
Ids(cur) == 1..cur

\* ------------------------------------------------------------------ the state
VARIABLES
  variant,   \* which store the process was built with
  notes,     \* the store: Map entries, array elements or table rows
  nextId,    \* noteCurrentId / nextId / the serial of the id column
  now,       \* the clock
  op,        \* the last call that returned
  ret,       \* what it returned
  issued,    \* ids createNote has returned so far
  deleted,   \* ids deleteNote has reported as removed
  calls,     \* mutating calls served since construction
  inflight,  \* the request suspended at an await on the database, or Idle
  resp,      \* the last response sent
  served,    \* the request it answers and what serving it took
  scenario,  \* how far the requests so far follow the end-to-end run
  twin,      \* the notes table a MemStorage is compared with
  twinRet,   \* what the last call on the table returned
  history,      \* DrawingCanvas: the saved canvas states
  historyIndex, \* DrawingCanvas: the 0-based index of the state shown, or -1
  canvas,       \* the bitmap of the canvas element
  isDrawing,    \* DrawingCanvas: a stroke is under way
  currentTool,  \* DrawingCanvas: "pen" or "eraser"
  loading,      \* the image of initialContent has not loaded yet
  did,          \* the last canvas handler that ran
  before,       \* historyIndex and bitmap as the last undo found them
  files,        \* the names of the files in the training-data directory
  ocrResp       \* the last response of an OCR route

\* what the store calls leave alone: the route layer and the compared table
routeVars == << inflight, resp, served, scenario >>
twinVars == << twin, twinRet >>
canvasVars == << history, historyIndex, canvas, isDrawing, currentTool, loading,
                did, before >>
ocrVars == << files, ocrResp >>
noteVars == << variant, notes, nextId, now, op, ret, issued, deleted, calls >>

vars == << variant, notes, nextId, now, op, ret, issued, deleted, calls,
           inflight, resp, served, scenario, twin, twinRet,
           history, historyIndex, canvas, isDrawing, currentTool, loading,
           did, before, files, ocrResp >>

\* no request suspended, no response sent, no error raised
Idle == [stage |-> "idle"]
NoError == "none"
NoResponse == [route |-> "none", status |-> 0, body |-> [kind |-> "empty"]]
NothingServed ==
  [route |-> "none", path |-> << >>, body |-> [k \in {} |-> "null"],
   repoCalls |-> 0, accesses |-> 0, raised |-> NoError, logged |-> {}]
NoTwin == [notes |-> << >>, nextId |-> 1]

\* no canvas is mounted: the useState initial values of DrawingCanvas
NoSnapshot == [historyIndex |-> -1, canvas |-> {}]
NoCanvas ==
  /\ history = << >>
  /\ historyIndex = -1
  /\ canvas = {}
  /\ isDrawing = FALSE
  /\ currentTool = "pen"
  /\ loading = FALSE
  /\ did = "none"
  /\ before = NoSnapshot

\* the training-data directory is empty and no OCR route has answered
NoOcrResponse == [status |-> 0, body |-> [kind |-> "empty"]]
NoOcr ==
  /\ files = {}
  /\ ocrResp = NoOcrResponse

\* new MemStorage(): two createNote calls on the empty Map, the clock at 0 for
\* the first and at t for the second; the other stores start empty
\* the second createNote has not yet run when the constructor returns
MemConstructor_SecondPending(v, t) ==
  LET first == CreateNote(v, << >>, 1, SeedNotes[1], 0, 0)
  IN [notes |-> first.notes, nextId |-> first.nextId,
      issued |-> {first.ret.note.id}]

MemConstructor(v, t) ==
  LET first == CreateNote(v, << >>, 1, SeedNotes[1], 0, 0)
      second == CreateNote(v, first.notes, first.nextId, SeedNotes[2], t, t)
  IN [notes |-> second.notes, nextId |-> second.nextId,
      issued |-> {first.ret.note.id, second.ret.note.id}]

Init ==
  /\ variant \in Variants
  /\ \E t \in {0, 1} :
       IF IsMem(variant)
       THEN /\ now = t
            /\ notes = MemConstructor(variant, t).notes
            /\ nextId = MemConstructor(variant, t).nextId
            /\ issued = MemConstructor(variant, t).issued
       ELSE /\ now = 0
            /\ notes = << >>
            /\ nextId = 1
            /\ issued = {}
  /\ op = [name |-> "new"]
  /\ ret = RetUndefined
  /\ deleted = {}
  /\ calls = 0
  /\ inflight = Idle
  /\ resp = NoResponse
  /\ served = NothingServed
  /\ scenario = 0
  /\ twin = NoTwin
  /\ twinRet = RetUndefined
  /\ NoCanvas
  /\ NoOcr

\* ---------------------------------------------------------------- the actions
Tick ==
  /\ now < MaxClock
  /\ now' = now + 1
  /\ UNCHANGED << variant, notes, nextId, op, ret, issued, deleted, calls,
                  routeVars, twinVars, canvasVars, ocrVars >>

DoGetAllNotes ==
  /\ op' = [name |-> "getAllNotes"]
  /\ ret' = GetAllNotes(variant, notes)
  /\ UNCHANGED << variant, notes, nextId, now, issued, deleted, calls,
                  routeVars, twinVars, canvasVars, ocrVars >>

DoGetNote(id) ==
  /\ op' = [name |-> "getNote", id |-> id]
  /\ ret' = GetNote(variant, notes, id)
  /\ UNCHANGED << variant, notes, nextId, now, issued, deleted, calls,
                  routeVars, twinVars, canvasVars, ocrVars >>

\* the clock may advance by d between the two clock readings of the array store
DoCreateNote(insertNote, d) ==
  /\ calls < MaxCalls
  /\ calls' = calls + 1
  /\ now + d <= MaxClock
  /\ d > 0 => variant = "arr"
  /\ LET done == CreateNote(variant, notes, nextId, insertNote, now, now + d)
     IN /\ notes' = done.notes
        /\ nextId' = done.nextId
        /\ ret' = done.ret
        /\ issued' = issued \cup {done.ret.note.id}
  /\ now' = now + d
  /\ op' = [name |-> "createNote"]
  /\ UNCHANGED << variant, deleted,
                  routeVars, twinVars, canvasVars, ocrVars >>

DoUpdateNote(id, updatedFields) ==
  /\ calls < MaxCalls
  /\ calls' = calls + 1
  /\ LET done == UpdateNote(variant, notes, id, updatedFields, now)
     IN /\ notes' = done.notes
        /\ ret' = done.ret
  /\ op' = [name |-> "updateNote", id |-> id]
  /\ UNCHANGED << variant, nextId, now, issued, deleted,
                  routeVars, twinVars, canvasVars, ocrVars >>

DoDeleteNote(id) ==
  /\ calls < MaxCalls
  /\ calls' = calls + 1
  /\ LET done == DeleteNote(variant, notes, id)
     IN /\ notes' = done.notes
        /\ ret' = done.ret
        /\ deleted' = IF done.ret.value THEN deleted \cup {id} ELSE deleted
  /\ op' = [name |-> "deleteNote", id |-> id]
  /\ UNCHANGED << variant, nextId, now, issued,
                  routeVars, twinVars, canvasVars, ocrVars >>

\* PATCH /api/notes/:id/favorite: getNote, then updateNote with the note read
\* and the new flag; ret is what the handler got from the store
PatchFavorite(id, body) ==
  /\ calls < MaxCalls
  /\ calls' = calls + 1
  /\ LET note == GetNote(variant, notes, id)
     IN IF note.kind = "undefined"
        THEN /\ ret' = RetUndefined
             /\ notes' = notes
        ELSE LET done == UpdateNote(variant, notes, id,
                                    Spread(note.note,
                                           [isFavorite |-> BooleanOfIsFavorite(body)]),
                                    now)
             IN /\ notes' = done.notes
                /\ ret' = done.ret
  /\ op' = [name |-> "patchFavorite", id |-> id]
  /\ UNCHANGED << variant, nextId, now, issued, deleted,
                  routeVars, twinVars, canvasVars, ocrVars >>

\* the calls, with every argument the model draws
GetNoteCall == \E id \in Ids(nextId) : DoGetNote(id)

CreateNoteCall ==
  \E insertNote \in InsertNotes, d \in {0, 1} : DoCreateNote(insertNote, d)

UpdateNoteCall ==
  \E id \in Ids(nextId), updatedFields \in PartialNotes :
    DoUpdateNote(id, updatedFields)

DeleteNoteCall == \E id \in Ids(nextId) : DoDeleteNote(id)

PatchFavoriteCall ==
  \E id \in Ids(nextId), body \in FavoriteBodies : PatchFavorite(id, body)

Next ==
  \/ Tick
  \/ DoGetAllNotes
  \/ GetNoteCall
  \/ CreateNoteCall
  \/ UpdateNoteCall
  \/ DeleteNoteCall
  \/ PatchFavoriteCall

Spec == Init /\ [][Next]_vars

\* ================================================================ the claims
\* the note a store holds under id (a Map key, or the id of an element or row)
StoredAt(v, s, id) ==
  LET i == CHOOSE j \in 1..Len(s) : (IF IsMem(v) THEN s[j].key ELSE s[j].id) = id
  IN IF IsMem(v) THEN s[i].value ELSE s[i]

OptionalKeys == {"preview", "recognizedText", "isFavorite"}

\* C1: every createNote returns an id strictly greater than every id a
\* createNote returned before on this store, the ids of deleted notes included,
\* so no id is handed out twice.
C1_IdsStrictlyIncrease ==
  [][\A insertNote \in InsertNotes, d \in {0, 1} :
       (op'.name = "createNote" /\ DoCreateNote(insertNote, d)) =>
         /\ ret'.kind = "note"
         /\ \A earlier \in issued \cup deleted : ret'.note.id > earlier]_vars

\* a createNote has returned after a deleteNote removed a note
C1_Witness ==
  op.name = "createNote" /\ deleted # {} /\ ret.note.id \notin deleted

\* C2: the note any createNote returns and stores has createdAt = updatedAt,
\* in every store variant, whatever the clock does during the call.
C2_CreateStampsOneReading ==
  op.name = "createNote" =>
    /\ ret.note.createdAt = ret.note.updatedAt
    /\ StoredAt(variant, notes, ret.note.id).createdAt
         = StoredAt(variant, notes, ret.note.id).updatedAt

\* C3: a createNote call that omits preview, recognizedText or isFavorite
\* returns and stores a note where the omitted preview / recognizedText is
\* empty or null and the omitted isFavorite is false, in every store variant.
C3_DefaultsApplied ==
  [][\A insertNote \in InsertNotes, d \in {0, 1} :
       (op'.name = "createNote" /\ DoCreateNote(insertNote, d)) =>
         \A k \in OptionalKeys \ DOMAIN insertNote :
           \A n \in {ret'.note, StoredAt(variant, notes', ret'.note.id)} :
             /\ k \in DOMAIN n
             /\ IF k = "isFavorite" THEN n[k] = FALSE ELSE n[k] \in {Null, ""}]_vars

\* C4: for an id the store does not hold, getNote and updateNote return
\* undefined and deleteNote returns false, and the call leaves the stored notes
\* and the id counter as they were.
C4_AbsentIdReportsAbsence ==
  [][\A id \in Ids(nextId) \ StoredIds(variant, notes) :
       (op'.name \in {"getNote", "updateNote", "deleteNote"} /\ op'.id = id) =>
         /\ DoGetNote(id) => ret' = RetUndefined /\ notes' = notes /\ nextId' = nextId
         /\ \A updatedFields \in PartialNotes :
              DoUpdateNote(id, updatedFields) =>
                ret' = RetUndefined /\ notes' = notes /\ nextId' = nextId
         /\ DoDeleteNote(id) =>
              ret' = RetBool(FALSE) /\ notes' = notes /\ nextId' = nextId]_vars

\* an updateNote has returned for the id of a note that was deleted before
C4_Witness ==
  op.name = "updateNote" /\ op.id \in deleted /\ ret = RetUndefined

\* C5: updateNote on a stored note stores (and returns) a note with every
\* supplied key at the supplied value, every other key but updatedAt as before,
\* and updatedAt at the current time; the other notes are as before.
C5_UpdateMergesAndFrames ==
  [][\A id \in Ids(nextId), updatedFields \in PartialNotes :
       (/\ op'.name = "updateNote"
        /\ op'.id = id
        /\ id \in StoredIds(variant, notes)
        /\ DoUpdateNote(id, updatedFields)) =>
         /\ StoredIds(variant, notes') = StoredIds(variant, notes)
         /\ LET old == StoredAt(variant, notes, id)
                new == StoredAt(variant, notes', id)
            IN /\ DOMAIN new = DOMAIN old \cup DOMAIN updatedFields
               /\ \A k \in DOMAIN updatedFields : new[k] = updatedFields[k]
               /\ \A k \in DOMAIN old \ (DOMAIN updatedFields \cup {"updatedAt"}) :
                    new[k] = old[k]
               /\ new.updatedAt = now
               /\ ret' = RetNote(new)
         /\ \A other \in StoredIds(variant, notes) \ {id} :
              StoredAt(variant, notes', other) = StoredAt(variant, notes, other)]_vars

\* an updateNote has changed the title of a note created earlier and stamped it
\* later than its creation, with another note in the store
C5_Witness ==
  /\ op.name = "updateNote"
  /\ ret.kind = "note"
  /\ ret.note.title = "C"
  /\ ret.note.createdAt < ret.note.updatedAt
  /\ Cardinality(StoredIds(variant, notes)) > 1

\* C6: with a clock that never goes back, every stored note has
\* createdAt <= updatedAt after any sequence of creates, updates, favourite
\* toggles and deletes.
C6_CreatedNotAfterUpdated ==
  \A i \in 1..Len(notes) :
    StoredNotes(variant, notes)[i].createdAt <= StoredNotes(variant, notes)[i].updatedAt

\* a favourite toggle has restamped a note later than its creation
C6_Witness ==
  /\ op.name = "patchFavorite"
  /\ ret.kind = "note"
  /\ StoredAt(variant, notes, op.id).createdAt < StoredAt(variant, notes, op.id).updatedAt

\* C7: after updateNote(id, {isFavorite: true}) on a stored note, with the
\* clock past the note's updatedAt, getNote(id) returns isFavorite true and a
\* strictly greater updatedAt.
C7_FavoriteUpdateRestamps ==
  [][\A id \in Ids(nextId) :
       (/\ op'.name = "updateNote"
        /\ op'.id = id
        /\ id \in StoredIds(variant, notes)
        /\ StoredAt(variant, notes, id).updatedAt < now
        /\ DoUpdateNote(id, [isFavorite |-> TRUE])) =>
         LET got == GetNote(variant, notes', id)
         IN /\ got.kind = "note"
            /\ "isFavorite" \in DOMAIN got.note
            /\ got.note.isFavorite = TRUE
            /\ got.note.updatedAt > StoredAt(variant, notes, id).updatedAt]_vars

\* an updateNote has made a favourite of a note and stamped it later than its
\* creation
C7_Witness ==
  /\ op.name = "updateNote"
  /\ ret.kind = "note"
  /\ ret.note.title # "C"
  /\ "isFavorite" \in DOMAIN ret.note
  /\ ret.note.isFavorite
  /\ ret.note.createdAt < ret.note.updatedAt

\* C8: deleteNote(id) returns true exactly when the store held id; afterwards
\* getNote(id) returns undefined, another deleteNote(id) returns false, and
\* every other note is stored as before.
C8_DeleteRemovesExactlyOne ==
  [][\A id \in Ids(nextId) :
       (op'.name = "deleteNote" /\ op'.id = id /\ DoDeleteNote(id)) =>
         /\ ret' = RetBool(id \in StoredIds(variant, notes))
         /\ GetNote(variant, notes', id) = RetUndefined
         /\ DeleteNote(variant, notes', id).ret = RetBool(FALSE)
         /\ StoredIds(variant, notes') = StoredIds(variant, notes) \ {id}
         /\ \A other \in StoredIds(variant, notes') :
              StoredAt(variant, notes', other) = StoredAt(variant, notes, other)]_vars

\* a deleteNote has removed one note and left another in the store
C8_Witness ==
  /\ op.name = "deleteNote"
  /\ ret = RetBool(TRUE)
  /\ StoredIds(variant, notes) # {}

C10_CreateThenGetRoundTrip ==
  op.name = "createNote" =>
    GetNote(variant, notes, ret.note.id) = RetNote(ret.note)

\* a createNote given every optional field has returned, the clock past 0
C10_Witness ==
  /\ op.name = "createNote"
  /\ ret.note.title = "B"
  /\ ret.note.updatedAt > 0

\* ============================================================ the route layer
\* the six note routes of registerRoutes
ListRoute == "GET /api/notes"
GetRoute == "GET /api/notes/:id"
PostRoute == "POST /api/notes"
PutRoute == "PUT /api/notes/:id"
PatchRoute == "PATCH /api/notes/:id/favorite"
DeleteRoute == "DELETE /api/notes/:id"

Routes == {ListRoute, GetRoute, PostRoute, PutRoute, PatchRoute, DeleteRoute}

\* routes whose request counts against MaxCalls
MutatingRoutes == {PostRoute, PutRoute, PatchRoute, DeleteRoute}

\* ------------------------------------------------------------------ parseInt
\* the value parseInt gives a string that does not start with a digit; it is
\* equal to no id (ids are positive and the paths carry no sign)
NaN == -1

Digits == << "0", "1", "2", "3", "4", "5", "6", "7", "8", "9" >>

IsDigit(c) == \E d \in 1..Len(Digits) : Digits[d] = c

DigitValue(c) == (CHOOSE d \in 1..Len(Digits) : Digits[d] = c) - 1

\* the longest prefix of digits, read in base ten
RECURSIVE ParseDigits(_, _)
ParseDigits(chars, acc) ==
  IF chars = << >> \/ ~IsDigit(Head(chars)) THEN acc
  ELSE ParseDigits(Tail(chars), acc * 10 + DigitValue(Head(chars)))

\* parseInt(req.params.id) of a path segment given as its characters
ParseInt(chars) ==
  IF chars = << >> \/ ~IsDigit(Head(chars)) THEN NaN ELSE ParseDigits(chars, 0)

\* ----------------------------------------------------------- insertNoteSchema
\* the keys of an InsertNote, and those the schema requires
SchemaKeys == {"title", "content", "preview", "recognizedText", "isFavorite"}
RequiredKeys == {"title", "content"}

\* whether insertNoteSchema.parse(body) returns rather than throws a ZodError
SchemaAccepts(body) == RequiredKeys \subseteq DOMAIN body

\* what it returns: the keys of the schema, every other key stripped
SchemaParse(body) == [k \in (DOMAIN body) \cap SchemaKeys |-> body[k]]

\* fromZodError(error).message
ZodMessage == "Validation error: Required"

\* ---------------------------------------------------------------- responses
Response(route, status, body) == [route |-> route, status |-> status, body |-> body]

\* res.json({ message }), res.json(value) and res.send()
Message(m) == [kind |-> "message", message |-> m]
NoBody == [kind |-> "empty"]
NotFound == Message("Note not found")

\* the message of each route's catch block
FailMessage(route) ==
  CASE route = ListRoute -> "Failed to fetch notes"
    [] route = GetRoute -> "Failed to fetch note"
    [] route = PostRoute -> "Failed to create note"
    [] route = PutRoute -> "Failed to update note"
    [] route = PatchRoute -> "Failed to update favorite status"
    [] route = DeleteRoute -> "Failed to delete note"

\* ------------------------------------------------------ a request being served
\* req.params.id as characters, req.body, and how far the handler has got
NewFlight(req) ==
  [route |-> req.route, path |-> req.path, body |-> req.body,
   id |-> ParseInt(req.path), arg |-> EmptyObject, stage |-> "start",
   repoCalls |-> 0, accesses |-> 0]

\* the handler calls a repository operation, which makes one store access
Calling(fl) ==
  [fl EXCEPT !.repoCalls = fl.repoCalls + 1, !.accesses = fl.accesses + 1]

\* a repository operation makes a further store access
Accessing(fl) == [fl EXCEPT !.accesses = fl.accesses + 1]

\* the handler has sent its response; logged is what it wrote to the console
\* on the way, and no handler has a statement that writes there
Sent(fl, s, cur, status, body, raised) ==
  [done |-> TRUE, notes |-> s, nextId |-> cur,
   resp |-> Response(fl.route, status, body),
   served |-> [route |-> fl.route, path |-> fl.path, body |-> fl.body,
               repoCalls |-> fl.repoCalls, accesses |-> fl.accesses,
               raised |-> raised, logged |-> {}]]

\* the handler waits for the store
Suspended(fl, s, cur) ==
  [done |-> FALSE, notes |-> s, nextId |-> cur, resp |-> NoResponse,
   served |-> NothingServed, flight |-> fl]

\* the catch block sends the message of the error
Caught_SendsErrorMessage(fl, s, cur, detail) ==
  Sent(fl, s, cur, 500, Message(detail), detail)

\* the catch block of a route, for an error that is not a ZodError
Caught(fl, s, cur, detail) ==
  Sent(fl, s, cur, 500, Message(FailMessage(fl.route)), detail)

\* ------------------------------------------------------- errors of the store
\* what a failing statement may carry
ErrorDetails == {"connection terminated", "relation notes does not exist"}

\* the database rejects NaN as the value of the integer id column
NaNDetail == "invalid input syntax for type integer: NaN"

\* whether a statement on the database rejects: err is what the connection
\* does to it, and a NaN id is refused by the server; the Map and the array
\* perform no input or output and do not reject
Rejects(v, id, err) == v = "db" /\ (err # NoError \/ id = NaN)

RejectDetail(id, err) == IF err # NoError THEN err ELSE NaNDetail

\* --------------------------------------------- updateNote, as the routes see it
\* storage.updateNote(id, arg) up to its first wait: the Map and array stores
\* return at once; DatabaseStorage runs its select and, if the row is there,
\* waits for the update statement with the data it has built
\* the update statement sets createdAt as well
StorageUpdateNote_SetsCreatedAt(v, s, id, arg, t, err) ==
  IF v # "db"
  THEN LET done == UpdateNote(v, s, id, arg, t)
       IN [state |-> "returned", notes |-> done.notes, ret |-> done.ret]
  ELSE IF Rejects(v, id, err)
  THEN [state |-> "raised", detail |-> RejectDetail(id, err)]
  ELSE IF DbGetNote(s, id).kind = "undefined"
  THEN [state |-> "returned", notes |-> s, ret |-> RetUndefined]
  ELSE [state |-> "awaiting",
        data |-> Spread(arg, [updatedAt |-> t, createdAt |-> t])]

StorageUpdateNote(v, s, id, arg, t, err) ==
  IF v # "db"
  THEN LET done == UpdateNote(v, s, id, arg, t)
       IN [state |-> "returned", notes |-> done.notes, ret |-> done.ret]
  ELSE IF Rejects(v, id, err)
  THEN [state |-> "raised", detail |-> RejectDetail(id, err)]
  ELSE IF DbGetNote(s, id).kind = "undefined"
  THEN [state |-> "returned", notes |-> s, ret |-> RetUndefined]
  ELSE [state |-> "awaiting", data |-> Spread(arg, [updatedAt |-> t])]

\* the update statement of DatabaseStorage.updateNote
StorageUpdateNoteResume(s, id, data, err) ==
  IF Rejects("db", id, err)
  THEN [state |-> "raised", detail |-> RejectDetail(id, err)]
  ELSE LET done == DbUpdateSetWhereId(s, id, data)
       IN [state |-> "returned", notes |-> done.notes,
           ret |-> IF done.returning = << >> THEN RetUndefined
                   ELSE RetNote(done.returning[1])]

\* ---------------------------------------------------------------- the handlers
\* each takes the request as far as its next wait on the database; err is
\* what happens to the statement it issues
\* the sort is applied to the stored notes themselves, not to a copy
ListHandler_SortsInPlace(fl, v, s, cur, err) ==
  LET f1 == Calling(fl)
      list == GetAllNotes(v, s)
      sorted == IF IsMem(v)
                THEN [i \in 1..Len(s) |->
                        [key |-> list.notes[i].id, value |-> list.notes[i]]]
                ELSE s
  IN IF Rejects(v, 0, err) THEN Caught(f1, s, cur, RejectDetail(0, err))
     ELSE Sent(f1, sorted, cur, 200, list, NoError)

ListHandler(fl, v, s, cur, err) ==
  LET f1 == Calling(fl)
  IN IF Rejects(v, 0, err) THEN Caught(f1, s, cur, RejectDetail(0, err))
     ELSE Sent(f1, s, cur, 200, GetAllNotes(v, s), NoError)

GetHandler(fl, v, s, cur, err) ==
  LET f1 == Calling(fl)
      note == GetNote(v, s, fl.id)
  IN IF Rejects(v, fl.id, err) THEN Caught(f1, s, cur, RejectDetail(fl.id, err))
     ELSE IF note.kind = "undefined" THEN Sent(f1, s, cur, 404, NotFound, NoError)
     ELSE Sent(f1, s, cur, 200, note, NoError)

\* the id is the number of notes held plus one
PostHandler_IdFromCount(fl, v, s, cur, t1, t2, err) ==
  IF ~SchemaAccepts(fl.body)
  THEN Sent(fl, s, cur, 400, Message(ZodMessage), NoError)
  ELSE LET f1 == Calling(fl)
           done == CreateNote(v, s, Len(s) + 1, SchemaParse(fl.body), t1, t2)
       IN IF Rejects(v, 0, err) THEN Caught(f1, s, cur, RejectDetail(0, err))
          ELSE Sent(f1, done.notes, done.nextId, 201, done.ret, NoError)

\* an id is set aside before the body is validated
PostHandler_ReservesId(fl, v, s, cur, t1, t2, err) ==
  IF ~SchemaAccepts(fl.body)
  THEN Sent(fl, s, cur + 1, 400, Message(ZodMessage), NoError)
  ELSE LET f1 == Calling(fl)
           done == CreateNote(v, s, cur, SchemaParse(fl.body), t1, t2)
       IN IF Rejects(v, 0, err) THEN Caught(f1, s, cur, RejectDetail(0, err))
          ELSE Sent(f1, done.notes, done.nextId, 201, done.ret, NoError)

PostHandler(fl, v, s, cur, t1, t2, err) ==
  IF ~SchemaAccepts(fl.body)
  THEN Sent(fl, s, cur, 400, Message(ZodMessage), NoError)
  ELSE LET f1 == Calling(fl)
           done == CreateNote(v, s, cur, SchemaParse(fl.body), t1, t2)
       IN IF Rejects(v, 0, err) THEN Caught(f1, s, cur, RejectDetail(0, err))
          ELSE Sent(f1, done.notes, done.nextId, 201, done.ret, NoError)

\* if (!updatedNote) 404, else the note
PutResponse(fl, s, cur, updatedNote) ==
  IF updatedNote.kind = "undefined" THEN Sent(fl, s, cur, 404, NotFound, NoError)
  ELSE Sent(fl, s, cur, 200, updatedNote, NoError)

\* the note is looked up before the body is validated
PutHandler_LooksUpFirst(fl, v, s, cur, t, err) ==
  IF fl.stage = "start"
  THEN IF GetNote(v, s, fl.id).kind = "undefined"
       THEN Sent(Calling(fl), s, cur, 404, NotFound, NoError)
       ELSE IF ~SchemaAccepts(fl.body)
       THEN Sent(fl, s, cur, 400, Message(ZodMessage), NoError)
       ELSE LET f1 == Calling(fl)
                u == StorageUpdateNote(v, s, fl.id, SchemaParse(fl.body), t, err)
            IN CASE u.state = "raised" -> Caught(f1, s, cur, u.detail)
                 [] u.state = "returned" -> PutResponse(f1, u.notes, cur, u.ret)
                 [] u.state = "awaiting" ->
                      Suspended([f1 EXCEPT !.stage = "dbUpdate", !.arg = u.data],
                                s, cur)
  ELSE LET f1 == Accessing(fl)
           u == StorageUpdateNoteResume(s, fl.id, fl.arg, err)
       IN IF u.state = "raised" THEN Caught(f1, s, cur, u.detail)
          ELSE PutResponse(f1, u.notes, cur, u.ret)

\* req.body goes to updateNote in place of the parsed data
PutHandler_PassesBody(fl, v, s, cur, t, err) ==
  IF fl.stage = "start"
  THEN IF ~SchemaAccepts(fl.body)
       THEN Sent(fl, s, cur, 400, Message(ZodMessage), NoError)
       ELSE LET f1 == Calling(fl)
                u == StorageUpdateNote(v, s, fl.id, fl.body, t, err)
            IN CASE u.state = "raised" -> Caught(f1, s, cur, u.detail)
                 [] u.state = "returned" -> PutResponse(f1, u.notes, cur, u.ret)
                 [] u.state = "awaiting" ->
                      Suspended([f1 EXCEPT !.stage = "dbUpdate", !.arg = u.data],
                                s, cur)
  ELSE LET f1 == Accessing(fl)
           u == StorageUpdateNoteResume(s, fl.id, fl.arg, err)
       IN IF u.state = "raised" THEN Caught(f1, s, cur, u.detail)
          ELSE PutResponse(f1, u.notes, cur, u.ret)

PutHandler(fl, v, s, cur, t, err) ==
  IF fl.stage = "start"
  THEN IF ~SchemaAccepts(fl.body)
       THEN Sent(fl, s, cur, 400, Message(ZodMessage), NoError)
       ELSE LET f1 == Calling(fl)
                u == StorageUpdateNote(v, s, fl.id, SchemaParse(fl.body), t, err)
            IN CASE u.state = "raised" -> Caught(f1, s, cur, u.detail)
                 [] u.state = "returned" -> PutResponse(f1, u.notes, cur, u.ret)
                 [] u.state = "awaiting" ->
                      Suspended([f1 EXCEPT !.stage = "dbUpdate", !.arg = u.data],
                                s, cur)
  ELSE LET f1 == Accessing(fl)
           u == StorageUpdateNoteResume(s, fl.id, fl.arg, err)
       IN IF u.state = "raised" THEN Caught(f1, s, cur, u.detail)
          ELSE PutResponse(f1, u.notes, cur, u.ret)

\* getNote, then updateNote with the note read and the new flag; whatever
\* updateNote returns goes to res.json
PatchHandler(fl, v, s, cur, t, err) ==
  CASE fl.stage = "start" ->
         LET f1 == Calling(fl)
             note == GetNote(v, s, fl.id)
         IN IF Rejects(v, fl.id, err)
            THEN Caught(f1, s, cur, RejectDetail(fl.id, err))
            ELSE IF note.kind = "undefined"
            THEN Sent(f1, s, cur, 404, NotFound, NoError)
            ELSE Suspended(
                   [f1 EXCEPT !.stage = "updateNote",
                              !.arg = Spread(note.note,
                                        [isFavorite |-> BooleanOfIsFavorite(fl.body)])],
                   s, cur)
    [] fl.stage = "updateNote" ->
         LET f1 == Calling(fl)
             u == StorageUpdateNote(v, s, fl.id, fl.arg, t, err)
         IN IF u.state = "raised" THEN Caught(f1, s, cur, u.detail)
            ELSE IF u.state = "returned"
            THEN Sent(f1, u.notes, cur, 200, u.ret, NoError)
            ELSE Suspended([f1 EXCEPT !.stage = "dbUpdate", !.arg = u.data],
                           s, cur)
    [] fl.stage = "dbUpdate" ->
         LET f1 == Accessing(fl)
             u == StorageUpdateNoteResume(s, fl.id, fl.arg, err)
         IN IF u.state = "raised" THEN Caught(f1, s, cur, u.detail)
            ELSE Sent(f1, u.notes, cur, 200, u.ret, NoError)

\* the result of deleteNote is not looked at
DeleteHandler_NoCheck(fl, v, s, cur, err) ==
  LET f1 == Calling(fl)
      done == DeleteNote(v, s, fl.id)
  IN IF Rejects(v, fl.id, err) THEN Caught(f1, s, cur, RejectDetail(fl.id, err))
     ELSE Sent(f1, done.notes, cur, 204, NoBody, NoError)

DeleteHandler(fl, v, s, cur, err) ==
  LET f1 == Calling(fl)
      done == DeleteNote(v, s, fl.id)
  IN IF Rejects(v, fl.id, err) THEN Caught(f1, s, cur, RejectDetail(fl.id, err))
     ELSE IF ~done.ret.value THEN Sent(f1, s, cur, 404, NotFound, NoError)
     ELSE Sent(f1, done.notes, cur, 204, NoBody, NoError)

\* one stretch of a handler, from where it stands to its next wait or response
Step(fl, v, s, cur, t1, t2, err) ==
  CASE fl.route = ListRoute -> ListHandler(fl, v, s, cur, err)
    [] fl.route = GetRoute -> GetHandler(fl, v, s, cur, err)
    [] fl.route = PostRoute -> PostHandler(fl, v, s, cur, t1, t2, err)
    [] fl.route = PutRoute -> PutHandler(fl, v, s, cur, t1, err)
    [] fl.route = PatchRoute -> PatchHandler(fl, v, s, cur, t1, err)
    [] fl.route = DeleteRoute -> DeleteHandler(fl, v, s, cur, err)

\* a handler run to its response with no other request in between; the
\* faultAt-th statement it issues, if it gets that far, rejects with detail
RECURSIVE Run(_, _, _, _, _, _, _, _)
Run(fl, v, s, cur, t1, t2, faultAt, detail) ==
  LET err == IF fl.accesses + 1 = faultAt THEN detail ELSE NoError
      out == Step(fl, v, s, cur, t1, t2, err)
  IN IF out.done THEN out
     ELSE Run(out.flight, v, out.notes, out.nextId, t1, t2, faultAt, detail)

\* ------------------------------------------------------------- the requests
\* the body of the end-to-end run
TestBody == [title |-> "Test", content |-> "data:image/png;base64,iVBORw0KGgo="]

\* bodies of POST: the test note, and one with neither title nor content
PostBodies == { TestBody, EmptyObject }

\* bodies of PUT: a note that also carries an id and a createdAt of its own,
\* and one with neither title nor content
PutBodies ==
  { [id |-> 99, createdAt |-> 99, title |-> "C", content |-> "z"], EmptyObject }

\* bodies of PATCH: the flag set, and no flag at all
PatchBodies == { [isFavorite |-> TRUE], EmptyObject }

\* :id segments: the first two ids any store hands out, and a word
Paths == { << "1" >>, << "2" >>, << "a", "b", "c" >> }

Request(route, path, body) == [route |-> route, path |-> path, body |-> body]

Requests ==
  {Request(ListRoute, << >>, EmptyObject)}
    \cup {Request(GetRoute, p, EmptyObject) : p \in Paths}
    \cup {Request(PostRoute, << >>, b) : b \in PostBodies}
    \cup {Request(PutRoute, p, b) : p \in Paths, b \in PutBodies}
    \cup {Request(PatchRoute, p, b) : p \in Paths, b \in PatchBodies}
    \cup {Request(DeleteRoute, p, EmptyObject) : p \in Paths}

\* what may go wrong while a request is served in one stretch: nothing, or,
\* on the database, its first statement rejects (a later statement rejects
\* in a request that has waited for it, see Resume)
NoFault == [at |-> 0, detail |-> NoError]

Faults(v) ==
  {NoFault} \cup
    (IF v = "db" THEN {[at |-> 1, detail |-> e] : e \in ErrorDetails} ELSE {})

\* how far the clock may move between the two readings of the array store's
\* createNote
Advances(v, req) ==
  IF v = "arr" /\ req.route = PostRoute /\ SchemaAccepts(req.body)
  THEN {0, 1} ELSE {0}

\* ------------------------------------------------------- the end-to-end run
\* POST the test note, PATCH /1/favorite true, DELETE /1, GET /1, one after
\* the other on a server that has served nothing else: the number of steps
\* done, or 5 once the requests have left the run
Advance(sc, fl, overlapped, raised) ==
  IF overlapped \/ raised # NoError THEN 5
  ELSE IF sc = 0 /\ fl.route = PostRoute /\ fl.body = TestBody THEN 1
  ELSE IF sc = 1 /\ fl.route = PatchRoute /\ fl.path = << "1" >>
          /\ fl.body = [isFavorite |-> TRUE] THEN 2
  ELSE IF sc = 2 /\ fl.route = DeleteRoute /\ fl.path = << "1" >> THEN 3
  ELSE IF sc = 3 /\ fl.route = GetRoute /\ fl.path = << "1" >> THEN 4
  ELSE 5

\* ------------------------------------------------------------- route actions
\* a request served from arrival to response with nothing in between; d is
\* the clock's advance between the two readings of the array store's createNote
Serve(req, d, fault) ==
  /\ req.route \in MutatingRoutes => calls < MaxCalls
  /\ now + d <= MaxClock
  /\ \E out \in {Run(NewFlight(req), variant, notes, nextId, now, now + d,
                     fault.at, fault.detail)} :
        /\ notes' = out.notes
        /\ nextId' = out.nextId
        /\ resp' = out.resp
        /\ served' = out.served
        /\ scenario' = Advance(scenario, NewFlight(req), inflight # Idle,
                               out.served.raised)
        /\ issued' = IF req.route = PostRoute /\ out.resp.status = 201
                      THEN issued \cup {out.resp.body.note.id} ELSE issued
  /\ now' = now + d
  /\ calls' = IF req.route \in MutatingRoutes THEN calls + 1 ELSE calls
  /\ UNCHANGED << variant, op, ret, deleted, inflight, twinVars, canvasVars, ocrVars >>

\* a PUT or PATCH on DatabaseStorage gets as far as its first wait and lets
\* other requests in.  One suspended request is enough: a handler only reads
\* until its last statement, reads of different requests commute, so any
\* overlap of several requests leaves the table as some run does in which at
\* most one request at a time is held between its reads and its write
Begin(req) ==
  /\ variant = "db"
  /\ req.route \in {PutRoute, PatchRoute}
  /\ calls < MaxCalls
  /\ inflight = Idle
  /\ LET out == Step(NewFlight(req), variant, notes, nextId, now, now, NoError)
     IN /\ ~out.done
        /\ inflight' = out.flight
  /\ calls' = calls + 1
  /\ UNCHANGED << variant, notes, nextId, now, op, ret, issued, deleted,
                  resp, served, scenario, twinVars, canvasVars, ocrVars >>

\* the database answers the suspended request, or rejects its statement
Resume(err) ==
  /\ inflight # Idle
  /\ \E out \in {Step(inflight, variant, notes, nextId, now, now, err)} :
        /\ notes' = out.notes
        /\ nextId' = out.nextId
        /\ IF out.done
           THEN /\ inflight' = Idle
                /\ resp' = out.resp
                /\ served' = out.served
                /\ scenario' = Advance(scenario, inflight, FALSE, out.served.raised)
           ELSE /\ inflight' = out.flight
                /\ UNCHANGED << resp, served, scenario >>
  /\ UNCHANGED << variant, now, op, ret, issued, deleted, calls, twinVars,
                  canvasVars, ocrVars >>

ServeCall ==
  \E req \in Requests :
    \E d \in Advances(variant, req), fault \in Faults(variant) :
      Serve(req, d, fault)

BeginCall == \E req \in Requests : Begin(req)

ResumeCall == \E err \in {NoError} \cup ErrorDetails : Resume(err)

NextHttp ==
  \/ Tick
  \/ ServeCall
  \/ BeginCall
  \/ ResumeCall

SpecHttp == Init /\ [][NextHttp]_vars

\* ================================================== claims of the route layer
\* C11: on a freshly started server the run POST {title: "Test", content: a
\* data URL}, PATCH /notes/1/favorite {isFavorite: true}, DELETE /notes/1,
\* GET /notes/1 is answered 201 with id 1 and isFavorite false, then 200 with
\* isFavorite true, then 204, then 404 {message: "Note not found"}
C11_EndToEndRun ==
  /\ scenario = 1 =>
       /\ resp.status = 201
       /\ resp.body.kind = "note"
       /\ resp.body.note.id = 1
       /\ "isFavorite" \in DOMAIN resp.body.note
       /\ resp.body.note.isFavorite = FALSE
  /\ scenario = 2 =>
       /\ resp.status = 200
       /\ resp.body.kind = "note"
       /\ resp.body.note.isFavorite = TRUE
  /\ scenario = 3 => resp.status = 204
  /\ scenario = 4 => resp = Response(GetRoute, 404, NotFound)

\* C12: a POST whose body fails the schema (such as {}) is answered 400 with
\* a non-empty message, calls no repository operation, leaves the store and
\* the id counter as they were, and so leaves the next valid POST the id it
\* would have had
C12_InvalidPostLeavesNoTrace ==
  [][\A b \in PostBodies, fault \in Faults(variant) :
       (/\ served'.route = PostRoute
        /\ served'.body = b
        /\ ~SchemaAccepts(b)
        /\ Serve(Request(PostRoute, << >>, b), 0, fault))
       => /\ resp'.status = 400
          /\ resp'.body.kind = "message"
          /\ resp'.body.message # ""
          /\ served'.repoCalls = 0
          /\ notes' = notes
          /\ nextId' = nextId
          /\ CreateNote(variant, notes', nextId', SchemaParse(TestBody), now', now').ret
               = CreateNote(variant, notes, nextId, SchemaParse(TestBody), now, now).ret
    ]_vars

\* a POST without title and content has been turned down
C12_Witness ==
  /\ served.route = PostRoute
  /\ ~SchemaAccepts(served.body)
  /\ resp.status = 400
  /\ calls > 0

\* what the route table promises a request that finds the store as s and
\* leaves it as s2, when no statement it issued was rejected
AsRouteTable(v, req, s, s2, r) ==
  LET id == ParseInt(req.path)
      stored == id \in StoredIds(v, s)
  IN CASE req.route = ListRoute -> r.status = 200 /\ r.body.kind = "list"
       [] req.route = GetRoute ->
            IF stored THEN r.status = 200 /\ r.body = RetNote(StoredAt(v, s, id))
            ELSE r.status = 404 /\ r.body = NotFound
       [] req.route = PutRoute /\ SchemaAccepts(req.body) ->
            IF stored THEN r.status = 200 /\ r.body = RetNote(StoredAt(v, s2, id))
            ELSE r.status = 404 /\ r.body = NotFound
       [] req.route = DeleteRoute ->
            IF stored THEN r.status = 204 /\ r.body = NoBody
            ELSE r.status = 404 /\ r.body = NotFound
       [] OTHER -> TRUE

\* C13: with a store that does not fail, GET /notes/:id is answered 200 with
\* the note when the id is stored and 404 {message: "Note not found"}
\* otherwise, PUT with a valid body 200 with the updated note or 404, DELETE
\* 204 without a body or 404, and GET /notes always 200 with an array
C13_StatusesFollowRouteTable ==
  [][/\ \A req \in Requests :
          (/\ served'.route = req.route
           /\ served'.path = req.path
           /\ served'.body = req.body
           /\ served'.raised = NoError
           /\ \E d \in Advances(variant, req) : Serve(req, d, NoFault))
          => AsRouteTable(variant, req, notes, notes', resp')
     /\ (/\ inflight # Idle
         /\ inflight' = Idle
         /\ served'.raised = NoError
         /\ Resume(NoError))
        => AsRouteTable(variant, Request(inflight.route, inflight.path, inflight.body),
                        notes, notes', resp')
    ]_vars

\* a PUT with a valid body on a stored note has been answered 200
C13_Witness ==
  /\ served.route = PutRoute
  /\ SchemaAccepts(served.body)
  /\ served.raised = NoError
  /\ resp.status = 200

\* C14: whenever a repository call raises in one of the six routes, the
\* response is 500 with {message: m}, m a constant of the route: it is the
\* same whatever the error carries, and carries nothing of the error
C14_FailureAnswerFixedPerRoute ==
  served.raised # NoError =>
    /\ resp.status = 500
    /\ resp.body = Message(FailMessage(served.route))
    /\ resp.body.message \notin ErrorDetails \cup {NaNDetail}

\* the update statement of a PATCH, its third statement, was rejected
C14_Witness ==
  /\ served.route = PatchRoute
  /\ served.accesses = 3
  /\ served.raised \in ErrorDetails
  /\ resp.status = 500

\* =========================================== MemStorage beside DatabaseStorage
\* the second MemStorage and DatabaseStorage take the same calls, one after
\* the other, from an empty store each: the MemStorage after its two seeded
\* notes were deleted, the table after two rows were inserted and deleted, so
\* that both hand out the same ids.  ret is what the MemStorage returned,
\* twinRet what DatabaseStorage returned
EmptiedMem ==
  LET built == MemConstructor("mem2", 0)
      first == Mem2DeleteNote(built.notes, 1)
      second == Mem2DeleteNote(first.notes, 2)
  IN [notes |-> second.notes, nextId |-> built.nextId]

EmptiedTable ==
  LET one == DbCreateNote(<< >>, 1, SeedNotes[1], 0)
      two == DbCreateNote(one.notes, one.nextId, SeedNotes[2], 0)
      first == DbDeleteNote(two.notes, 1)
      second == DbDeleteNote(first.notes, 2)
  IN [notes |-> second.notes, nextId |-> two.nextId]

InitBoth ==
  /\ variant = "mem2"
  /\ notes = EmptiedMem.notes
  /\ nextId = EmptiedMem.nextId
  /\ twin = EmptiedTable
  /\ now = 0
  /\ op = [name |-> "new"]
  /\ ret = RetUndefined
  /\ twinRet = RetUndefined
  /\ issued = {}
  /\ deleted = {}
  /\ calls = 0
  /\ inflight = Idle
  /\ resp = NoResponse
  /\ served = NothingServed
  /\ scenario = 0
  /\ NoCanvas
  /\ NoOcr

BothGetAllNotes ==
  /\ op' = [name |-> "getAllNotes"]
  /\ ret' = Mem2GetAllNotes(notes)
  /\ twinRet' = DbGetAllNotes(twin.notes)
  /\ UNCHANGED << variant, notes, nextId, now, issued, deleted, calls, twin,
                  routeVars, canvasVars, ocrVars >>

BothGetNote(id) ==
  /\ op' = [name |-> "getNote", id |-> id]
  /\ ret' = Mem2GetNote(notes, id)
  /\ twinRet' = DbGetNote(twin.notes, id)
  /\ UNCHANGED << variant, notes, nextId, now, issued, deleted, calls, twin,
                  routeVars, canvasVars, ocrVars >>

BothCreateNote(insertNote) ==
  /\ calls < MaxCalls
  /\ calls' = calls + 1
  /\ LET mem == Mem2CreateNote(notes, nextId, insertNote, now)
         db == DbCreateNote(twin.notes, twin.nextId, insertNote, now)
     IN /\ notes' = mem.notes
        /\ nextId' = mem.nextId
        /\ ret' = mem.ret
        /\ twin' = [notes |-> db.notes, nextId |-> db.nextId]
        /\ twinRet' = db.ret
  /\ op' = [name |-> "createNote"]
  /\ UNCHANGED << variant, now, issued, deleted, routeVars, canvasVars, ocrVars >>

BothUpdateNote(id, updatedFields) ==
  /\ calls < MaxCalls
  /\ calls' = calls + 1
  /\ LET mem == Mem2UpdateNote(notes, id, updatedFields, now)
         db == DbUpdateNote(twin.notes, id, updatedFields, now)
     IN /\ notes' = mem.notes
        /\ ret' = mem.ret
        /\ twin' = [twin EXCEPT !.notes = db.notes]
        /\ twinRet' = db.ret
  /\ op' = [name |-> "updateNote", id |-> id]
  /\ UNCHANGED << variant, nextId, now, issued, deleted, routeVars, canvasVars, ocrVars >>

BothDeleteNote(id) ==
  /\ calls < MaxCalls
  /\ calls' = calls + 1
  /\ LET mem == Mem2DeleteNote(notes, id)
         db == DbDeleteNote(twin.notes, id)
     IN /\ notes' = mem.notes
        /\ ret' = mem.ret
        /\ twin' = [twin EXCEPT !.notes = db.notes]
        /\ twinRet' = db.ret
  /\ op' = [name |-> "deleteNote", id |-> id]
  /\ UNCHANGED << variant, nextId, now, issued, deleted, routeVars, canvasVars, ocrVars >>

BothGetNoteCall == \E id \in Ids(nextId) : BothGetNote(id)

BothCreateNoteCall == \E insertNote \in InsertNotes : BothCreateNote(insertNote)

BothUpdateNoteCall ==
  \E id \in Ids(nextId), updatedFields \in PartialNotes :
    BothUpdateNote(id, updatedFields)

BothDeleteNoteCall == \E id \in Ids(nextId) : BothDeleteNote(id)

NextBoth ==
  \/ Tick
  \/ BothGetAllNotes
  \/ BothGetNoteCall
  \/ BothCreateNoteCall
  \/ BothUpdateNoteCall
  \/ BothDeleteNoteCall

SpecBoth == InitBoth /\ [][NextBoth]_vars

\* C15: MemStorage and DatabaseStorage are observationally equivalent: for
\* every sequence of listAll, get, create, update and delete applied to both
\* from an empty note table, each call returns the same result in both, the
\* order of listAll included
C15_SameResultsFromBoth == ret = twinRet

\* ------------------------------------------- claims on identity and creation
\* the Map holds every note under its own id; the array and the table, which
\* look a note up by its id field, hold no id twice
KeysAreIds(v, s) ==
  IF IsMem(v)
  THEN \A i \in 1..Len(s) : s[i].key = s[i].value.id
  ELSE \A i, j \in 1..Len(s) : s[i].id = s[j].id => i = j

\* the store holds as many notes as before, each with the id it had
SameIds(v, s, s2) ==
  /\ Len(s2) = Len(s)
  /\ \A i \in 1..Len(s) : StoredNotes(v, s2)[i].id = StoredNotes(v, s)[i].id

\* this step is a PUT or a PATCH served in one stretch, or a statement of a
\* PUT or PATCH that had waited
PutOrPatchStep ==
  \/ /\ served'.route \in {PutRoute, PatchRoute}
     /\ \E req \in Requests :
          /\ req.route = served'.route
          /\ req.path = served'.path
          /\ req.body = served'.body
          /\ \E fault \in Faults(variant) : Serve(req, 0, fault)
  \/ /\ inflight # Idle
     /\ \E err \in {NoError} \cup ErrorDetails : Resume(err)

\* C16: in every reachable state the id field of a stored note is the key or
\* lookup id it is held under, and no PUT or PATCH changes the id field of a
\* stored note
C16_IdIsKeyAndStays ==
  [][/\ KeysAreIds(variant, notes)
     /\ KeysAreIds(variant, notes')
     /\ PutOrPatchStep => SameIds(variant, notes, notes')
    ]_vars

\* a PUT whose body carries an id of its own has updated a note
C16_Witness ==
  /\ served.route = PutRoute
  /\ "id" \in DOMAIN served.body
  /\ resp.status = 200
  /\ resp.body.note.id = ParseInt(served.path)

\* C17: the createdAt of a note is the same in every state from its creation
\* to its deletion; no PUT or PATCH, in any interleaving, changes it
C17_CreatedAtNeverChanges ==
  [][\A id \in StoredIds(variant, notes) \cap StoredIds(variant, notes') :
       StoredAt(variant, notes', id).createdAt = StoredAt(variant, notes, id).createdAt
    ]_vars

\* a PATCH that waited for the database has written a note whose last change
\* is later than its creation
C17_Witness ==
  /\ variant = "db"
  /\ served.route = PatchRoute
  /\ served.accesses = 3
  /\ resp.status = 200
  /\ resp.body.kind = "note"
  /\ resp.body.note.createdAt < resp.body.note.updatedAt

\* ------------------------------------------------- claims on concurrent use
\* C18: every request to a note route performs at most one repository
\* operation, and that operation makes at most one access to the store
C18_OneOperationPerRequest ==
  /\ served.repoCalls <= 1
  /\ served.accesses <= 1

\* the fields of a note a PUT sets and a favourite toggle does not
ContentKeys == {"title", "content", "preview", "recognizedText"}

\* this step is a PATCH served in one stretch, or a statement of a PATCH that
\* had waited
PatchStep ==
  \/ /\ served'.route = PatchRoute
     /\ \E req \in Requests :
          /\ req.route = PatchRoute
          /\ req.path = served'.path
          /\ req.body = served'.body
          /\ \E fault \in Faults(variant) : Serve(req, 0, fault)
  \/ /\ inflight # Idle
     /\ inflight.route = PatchRoute
     /\ \E err \in {NoError} \cup ErrorDetails : Resume(err)

\* C19: PATCH favorite changes only isFavorite (and updatedAt): in every
\* interleaving with a PUT on the same note, the title, content, preview and
\* recognizedText stored once the PATCH has written are those the latest
\* completed PUT left, never those the PATCH read before it
C19_PatchKeepsContent ==
  [][PatchStep =>
       \A id \in StoredIds(variant, notes) \cap StoredIds(variant, notes') :
         \A k \in ContentKeys :
           /\ k \in DOMAIN StoredAt(variant, notes', id)
                <=> k \in DOMAIN StoredAt(variant, notes, id)
           /\ k \in DOMAIN StoredAt(variant, notes, id)
                => StoredAt(variant, notes', id)[k] = StoredAt(variant, notes, id)[k]
    ]_vars

\* C20: for GET /notes/:id, PATCH favorite, DELETE, and PUT with a valid
\* body, a path id that does not parse as an integer is treated as not
\* found: 404 {message: "Note not found"} and the store unchanged, in every
\* store state
C20_NonNumericIdIsNotFound ==
  [][\A req \in Requests :
       (/\ req.route \in {GetRoute, PatchRoute, DeleteRoute, PutRoute}
        /\ req.route = PutRoute => SchemaAccepts(req.body)
        /\ ParseInt(req.path) = NaN
        /\ served'.route = req.route
        /\ served'.path = req.path
        /\ served'.body = req.body
        /\ Serve(req, 0, NoFault))
       => /\ resp'.status = 404
          /\ resp'.body = NotFound
          /\ notes' = notes
    ]_vars

\* C21: PATCH /notes/:id/favorite answers 200 only together with the updated
\* note: in every interleaving with a DELETE of the same id, if the note is
\* gone when the update is applied the answer is 404 {message: "Note not
\* found"}, never a 200 with an empty body
C21_PatchAnswers200WithNote ==
  (served.route = PatchRoute /\ served.raised = NoError) =>
    \/ resp.status = 200 /\ resp.body.kind = "note"
    \/ resp.status = 404 /\ resp.body = NotFound

\* C22: PUT /notes/:id validates the body before it looks the note up: a PUT
\* with an invalid body is answered 400 with a message whether or not the id
\* is stored (never 404), makes no repository call, and leaves the addressed
\* note, its updatedAt included, as it was
C22_InvalidPutIsTurnedDownFirst ==
  [][\A p \in Paths, b \in PutBodies, fault \in Faults(variant) :
       (/\ served'.route = PutRoute
        /\ served'.path = p
        /\ served'.body = b
        /\ ~SchemaAccepts(b)
        /\ Serve(Request(PutRoute, p, b), 0, fault))
       => /\ resp'.status = 400
          /\ resp'.body.kind = "message"
          /\ resp'.body.message # ""
          /\ served'.repoCalls = 0
          /\ notes' = notes
    ]_vars

\* a PUT without title and content, addressed to a stored note, has been
\* turned down
C22_Witness ==
  /\ served.route = PutRoute
  /\ ~SchemaAccepts(served.body)
  /\ ParseInt(served.path) \in StoredIds(variant, notes)
  /\ resp.status = 400

\* C23: whenever a repository call raises during a note route, the failure
\* is logged server-side before or together with the 500 response: no handler
\* answers 500 without having recorded the error
C23_FailureIsLogged ==
  (served.raised # NoError /\ resp.status = 500) => served.raised \in served.logged

\* =================================================== claims on the Map stores
\* C24: right after a MemStorage is constructed, before any request is
\* served, the store holds exactly two notes, with ids 1 and 2, the first
\* with isFavorite true and the second false, and the next id is 3: the two
\* createNote calls of the constructor, which it does not await, have taken
\* full effect when it returns
C24_ConstructorSeedsTwoNotes ==
  (IsMem(variant) /\ op.name = "new" /\ calls = 0) =>
    /\ Len(notes) = 2
    /\ StoredIds(variant, notes) = {1, 2}
    /\ StoredAt(variant, notes, 1).id = 1
    /\ StoredAt(variant, notes, 1).isFavorite = TRUE
    /\ StoredAt(variant, notes, 2).id = 2
    /\ StoredAt(variant, notes, 2).isFavorite = FALSE
    /\ nextId = 3

\* a MemStorage as its constructor has left it
C24_Witness ==
  /\ IsMem(variant)
  /\ op.name = "new"
  /\ calls = 0
  /\ Len(notes) = 2

\* C25: getAllNotes of a MemStorage returns the notes in non-increasing
\* updatedAt order: after any sequence of creates and updates, a note whose
\* updatedAt is strictly later than another's comes before it in the list
C25_ListIsNewestFirst ==
  (IsMem(variant) /\ op.name = "getAllNotes") =>
    /\ ret.kind = "list"
    /\ \A i, j \in 1..Len(ret.notes) :
         ret.notes[i].updatedAt > ret.notes[j].updatedAt => i < j

\* a list in which the sort has moved a later-stamped note ahead of a note
\* that was inserted before it
C25_Witness ==
  /\ IsMem(variant)
  /\ op.name = "getAllNotes"
  /\ ret.kind = "list"
  /\ \E i, j \in 1..Len(ret.notes) :
       /\ i < j
       /\ ret.notes[i].updatedAt > ret.notes[j].updatedAt
       /\ \E a, b \in 1..Len(notes) :
            /\ a > b
            /\ notes[a].key = ret.notes[i].id
            /\ notes[b].key = ret.notes[j].id

\* ============================================ claims on the in-memory routes
InMemory(v) == v # "db"

C27_GetsChangeNothing ==
  [][\A req \in {r \in Requests : r.route \in {ListRoute, GetRoute}},
        fault \in Faults(variant) :
       (/\ served'.route = req.route
        /\ served'.path = req.path
        /\ Serve(req, 0, fault))
       => /\ notes' = notes
          /\ nextId' = nextId ]_vars

\* GET /notes has answered with a list that is not in the stored order, and
\* the Map still holds the notes in the order they were inserted
C27_Witness ==
  /\ IsMem(variant)
  /\ served.route = ListRoute
  /\ resp.status = 200
  /\ resp.body.kind = "list"
  /\ resp.body.notes # MapValues(notes)
  /\ \A i, j \in 1..Len(notes) : i < j => notes[i].key < notes[j].key

\* ======================================================== the drawing canvas
\* DrawingCanvas.tsx: a canvas element and the component's history of saved
\* bitmaps.  A bitmap is the set of its inked pixels.  The handlers bound in
\* the JSX (onMouseDown, onMouseMove, onMouseUp, onMouseOut, onClick) are
\* those of the latest render and see the current state; the listeners the
\* mount effect registers (pointerdown, pointermove, pointerup, resize, the
\* image's onload) are those of the first render, because the effect has an
\* empty dependency list, and see the state of the first render for good.
\* React renders after each event, before the next handler runs.
Pixels == {1, 2}

\* the picture initialContent holds, when there is one
InitialImage == {1}

\* what the listeners of the first render see
FirstRender ==
  [history |-> << >>, historyIndex |-> -1, isDrawing |-> FALSE,
   currentTool |-> "pen"]

\* Array.prototype.slice(0, end)
Slice(s, end) == SubSeq(s, 1, IF end > Len(s) THEN Len(s) ELSE end)

\* { imageData }, with ctx.getImageData's copy of the bitmap
HistoryItem(bitmap) == [imageData |-> bitmap]

\* configureContext and a fill or stroke at p: the pen paints the pixel
\* (source-over), the eraser takes it out (destination-out)
Ink(bitmap, tool, p) ==
  IF tool = "eraser" THEN bitmap \ {p} ELSE bitmap \cup {p}

\* saveHistoryState: the test reads the history and index the handler's
\* render saw, the updaters are applied to the state as it is
saveHistoryState(seenHistory, seenIndex, prevHistory, prevIndex, bitmap) ==
  LET truncated == IF seenIndex < Len(seenHistory) - 1
                   THEN Slice(prevHistory, seenIndex + 1)
                   ELSE prevHistory
  IN [history |-> Append(truncated, HistoryItem(bitmap)),
      historyIndex |-> prevIndex + 1]

\* the test is historyIndex < 0: undo also runs at index 0, where
\* history[-1] is undefined and putImageData throws after the index is set
Undo_RunsAtZero(h, index, bitmap) ==
  IF index < 0 THEN [historyIndex |-> index, canvas |-> bitmap]
  ELSE [historyIndex |-> index - 1,
        canvas |-> IF index = 0 THEN bitmap ELSE h[index].imageData]

\* handleUndo: the index and bitmap it leaves; history[historyIndex - 1] is
\* the element at index of the 1-based sequence
Undo(h, index, bitmap) ==
  IF index <= 0 THEN [historyIndex |-> index, canvas |-> bitmap]
  ELSE [historyIndex |-> index - 1, canvas |-> h[index].imageData]

\* handleRedo
Redo(h, index, bitmap) ==
  IF index >= Len(h) - 1 THEN [historyIndex |-> index, canvas |-> bitmap]
  ELSE [historyIndex |-> index + 1, canvas |-> h[index + 2].imageData]

\* the first render and its effect: resizeCanvas blanks the bitmap; without
\* initialContent the blank state is saved, with it the image starts loading
InitCanvas ==
  /\ variant = "arr"
  /\ notes = << >>
  /\ nextId = 1
  /\ now = 0
  /\ issued = {}
  /\ op = [name |-> "new"]
  /\ ret = RetUndefined
  /\ deleted = {}
  /\ calls = 0
  /\ inflight = Idle
  /\ resp = NoResponse
  /\ served = NothingServed
  /\ scenario = 0
  /\ twin = NoTwin
  /\ twinRet = RetUndefined
  /\ NoOcr
  /\ canvas = {}
  /\ isDrawing = FALSE
  /\ currentTool = "pen"
  /\ loading \in BOOLEAN
  /\ \E saved \in {saveHistoryState(<< >>, -1, << >>, -1, {})} :
       /\ history = IF loading THEN << >> ELSE saved.history
       /\ historyIndex = IF loading THEN -1 ELSE saved.historyIndex
  /\ did = "mount"
  /\ before = NoSnapshot

\* img.onload: the image is drawn over the bitmap and the state saved, by the
\* saveHistoryState of the first render
ImageLoaded ==
  /\ loading
  /\ Len(history) < MaxHistory
  /\ \E saved \in {saveHistoryState(FirstRender.history, FirstRender.historyIndex,
                                    history, historyIndex,
                                    canvas \cup InitialImage)} :
       /\ history' = saved.history
       /\ historyIndex' = saved.historyIndex
  /\ canvas' = canvas \cup InitialImage
  /\ loading' = FALSE
  /\ did' = "imageLoaded"
  /\ before' = NoSnapshot
  /\ UNCHANGED << isDrawing, currentTool, noteVars, routeVars, twinVars, ocrVars >>

\* the resize listener of the first render: assigning canvas.width blanks the
\* bitmap, and the state shown is put back if the history it sees has one
ResizeCanvas ==
  /\ canvas' = IF /\ FirstRender.historyIndex >= 0
                  /\ FirstRender.historyIndex < Len(FirstRender.history)
               THEN FirstRender.history[FirstRender.historyIndex + 1].imageData
               ELSE {}
  /\ did' = "resize"
  /\ before' = NoSnapshot
  /\ UNCHANGED << history, historyIndex, isDrawing, currentTool, loading,
                  noteVars, routeVars, twinVars, ocrVars >>

\* the pointerdown listener of the first render: a dot with the tool of the
\* first render.  Its pointermove and pointerup listeners test the isDrawing
\* of the first render, which is false, and return at once
HandlePointerDown(p) ==
  /\ isDrawing' = TRUE
  /\ canvas' = Ink(canvas, FirstRender.currentTool, p)
  /\ did' = "pointerDown"
  /\ before' = NoSnapshot
  /\ UNCHANGED << history, historyIndex, currentTool, loading,
                  noteVars, routeVars, twinVars, ocrVars >>

\* onMouseDown
StartDrawing(p) ==
  /\ isDrawing' = TRUE
  /\ canvas' = Ink(canvas, currentTool, p)
  /\ did' = "startDrawing"
  /\ before' = NoSnapshot
  /\ UNCHANGED << history, historyIndex, currentTool, loading,
                  noteVars, routeVars, twinVars, ocrVars >>

\* onMouseMove
Draw(p) ==
  /\ isDrawing
  /\ canvas' = Ink(canvas, currentTool, p)
  /\ did' = "draw"
  /\ before' = NoSnapshot
  /\ UNCHANGED << history, historyIndex, isDrawing, currentTool, loading,
                  noteVars, routeVars, twinVars, ocrVars >>

\* onMouseUp, onMouseOut: the end of a stroke saves the bitmap
StopDrawing ==
  /\ isDrawing
  /\ \E saved \in {saveHistoryState(history, historyIndex, history,
                                    historyIndex, canvas)} :
       /\ Len(saved.history) <= MaxHistory
       /\ history' = saved.history
       /\ historyIndex' = saved.historyIndex
  /\ isDrawing' = FALSE
  /\ did' = "stopDrawing"
  /\ before' = NoSnapshot
  /\ UNCHANGED << canvas, currentTool, loading,
                  noteVars, routeVars, twinVars, ocrVars >>

\* handleClear: clearRect, then saveHistoryState
HandleClear ==
  /\ \E saved \in {saveHistoryState(history, historyIndex, history,
                                    historyIndex, {})} :
       /\ Len(saved.history) <= MaxHistory
       /\ history' = saved.history
       /\ historyIndex' = saved.historyIndex
  /\ canvas' = {}
  /\ did' = "clear"
  /\ before' = NoSnapshot
  /\ UNCHANGED << isDrawing, currentTool, loading,
                  noteVars, routeVars, twinVars, ocrVars >>

HandleUndo ==
  /\ \E undone \in {Undo(history, historyIndex, canvas)} :
       /\ historyIndex' = undone.historyIndex
       /\ canvas' = undone.canvas
  /\ did' = "undo"
  /\ before' = [historyIndex |-> historyIndex, canvas |-> canvas]
  /\ UNCHANGED << history, isDrawing, currentTool, loading,
                  noteVars, routeVars, twinVars, ocrVars >>

HandleRedo ==
  /\ \E redone \in {Redo(history, historyIndex, canvas)} :
       /\ historyIndex' = redone.historyIndex
       /\ canvas' = redone.canvas
  /\ did' = "redo"
  /\ before' = NoSnapshot
  /\ UNCHANGED << history, isDrawing, currentTool, loading,
                  noteVars, routeVars, twinVars, ocrVars >>

HandleToolChange(tool) ==
  /\ currentTool' = tool
  /\ did' = "toolChange"
  /\ before' = NoSnapshot
  /\ UNCHANGED << history, historyIndex, canvas, isDrawing, loading,
                  noteVars, routeVars, twinVars, ocrVars >>

PointerDownEvent == \E p \in Pixels : HandlePointerDown(p)

MouseDownEvent == \E p \in Pixels : StartDrawing(p)

MouseMoveEvent == \E p \in Pixels : Draw(p)

ToolChangeEvent == \E tool \in {"pen", "eraser"} : HandleToolChange(tool)

NextCanvas ==
  \/ ImageLoaded
  \/ ResizeCanvas
  \/ PointerDownEvent
  \/ MouseDownEvent
  \/ MouseMoveEvent
  \/ StopDrawing
  \/ HandleClear
  \/ HandleUndo
  \/ HandleRedo
  \/ ToolChangeEvent

SpecCanvas == InitCanvas /\ [][NextCanvas]_vars

\* C28: once the initial state has been saved, every state reached by
\* stroke-end saves, clears, undos and redos has
\* 0 <= historyIndex <= history.length - 1; an undo at historyIndex 0 and a
\* redo at historyIndex = history.length - 1 change neither the history nor
\* the index
C28_HistoryIndexInRange ==
  /\ [](~loading => (0 <= historyIndex /\ historyIndex <= Len(history) - 1))
  /\ [][(\/ ~loading /\ historyIndex = 0 /\ HandleUndo
         \/ ~loading /\ historyIndex = Len(history) - 1 /\ HandleRedo)
        => (history' = history /\ historyIndex' = historyIndex)]_vars

\* undo has just run at index 0 with a later state in the history
C28_Witness ==
  /\ ~loading
  /\ did = "undo"
  /\ before.historyIndex = 0
  /\ historyIndex = 0
  /\ Len(history) >= 2

\* C29: a save (stroke end or clear) after one or more undos drops every
\* history entry after the current index and appends the new state, so that
\* afterwards historyIndex = history.length - 1 and redo does nothing; and an
\* undo followed at once by a redo brings back the historyIndex and the bitmap
\* the canvas had before the undo
C29_SaveTruncatesAndRedoRestores ==
  [][/\ ((StopDrawing \/ HandleClear) /\ historyIndex < Len(history) - 1)
        => /\ history' = Append(SubSeq(history, 1, historyIndex + 1),
                                HistoryItem(canvas'))
           /\ historyIndex' = Len(history') - 1
           /\ Redo(history', historyIndex', canvas') =
                [historyIndex |-> historyIndex', canvas |-> canvas']
     /\ (did = "undo" /\ before.historyIndex >= 1 /\ HandleRedo)
        => /\ historyIndex' = before.historyIndex
           /\ canvas' = before.canvas ]_vars

\* ================================================== the OCR training images
\* ocrRoutes.ts and ocrController.ts: the training-data directory and the
\* routes that upload to it, list it and delete from it.  A file name, an id,
\* a label and a path segment are sequences of characters; the directory is
\* the set of its file names, which readdirSync returns in no promised order
\* Number.prototype.toString, base ten
RECURSIVE NumberToString(_)
NumberToString(n) ==
  IF n < 10 THEN << Digits[n + 1] >>
  ELSE NumberToString(n \div 10) \o << Digits[(n % 10) + 1] >>

PngExtension == << ".", "p", "n", "g" >>

\* a template literal writes undefined as the word
UndefinedText == << "u", "n", "d", "e", "f", "i", "n", "e", "d" >>

IsAlphanumeric(c) == IsDigit(c) \/ c \in {"a", "b", "u", "n", "d", "e", "f", "i", "p", "g"}

\* label.replace(/[^a-z0-9]/gi, '_')
Sanitize(label) ==
  [i \in 1..Len(label) |-> IF IsAlphanumeric(label[i]) THEN label[i] ELSE "_"]

\* String.prototype.startsWith
StartsWith(text, prefix) ==
  /\ Len(prefix) <= Len(text)
  /\ SubSeq(text, 1, Len(prefix)) = prefix

\* String.prototype.trim
RECURSIVE Trim(_)
Trim(text) ==
  IF text = << >> THEN text
  ELSE IF Head(text) = " " THEN Trim(Tail(text))
  ELSE IF text[Len(text)] = " " THEN Trim(SubSeq(text, 1, Len(text) - 1))
  ELSE text

\* the number of digits filename starts with
RECURSIVE DigitPrefix(_)
DigitPrefix(text) ==
  IF text = << >> \/ ~IsDigit(Head(text)) THEN 0 ELSE 1 + DigitPrefix(Tail(text))

\* filename.match(/^(\d+)_(.+)\.png$/)
Matches(filename) ==
  LET n == DigitPrefix(filename)
  IN /\ n >= 1
     /\ Len(filename) >= n + 1 + 1 + Len(PngExtension)
     /\ filename[n + 1] = "_"
     /\ SubSeq(filename, Len(filename) - Len(PngExtension) + 1, Len(filename))
          = PngExtension

\* the entry getTrainingImages makes of a matching file name: match[1], and
\* match[2] with its underscores turned into spaces and trimmed
TrainingImage(filename) ==
  LET n == DigitPrefix(filename)
      rest == SubSeq(filename, n + 2, Len(filename) - Len(PngExtension))
  IN [id |-> SubSeq(filename, 1, n),
      label |-> Trim([i \in 1..Len(rest) |->
                        IF rest[i] = "_" THEN " " ELSE rest[i]]),
      filename |-> filename]

\* files.map(...).filter(Boolean)
TrainingImages(dir) == {TrainingImage(f) : f \in {g \in dir : Matches(g)}}

\* req.params of a request to /training-image/:id: express names the
\* parameter as the route pattern does
RouteParams(segment) == [id |-> segment]

\* a property read of req.params, written into a template literal
ParamText(params, key) ==
  IF key \in DOMAIN params THEN params[key] ELSE UndefinedText

OcrResponse(status, body) == [status |-> status, body |-> body]

\* deleteTrainingImage: the files find can return, those whose name starts
\* with `${imageId}_`, imageId being req.params.imageId
TargetFiles(dir, params) ==
  {f \in dir : StartsWith(f, ParamText(params, "imageId") \o << "_" >>)}

Labels == { << >>, << "a" >>, << "b" >>, << "a", " ", "b" >> }

Segments == {NumberToString(t) : t \in 0..MaxClock} \cup { << "9" >> }

InitOcr ==
  /\ variant = "arr"
  /\ notes = << >>
  /\ nextId = 1
  /\ now = 0
  /\ issued = {}
  /\ op = [name |-> "new"]
  /\ ret = RetUndefined
  /\ deleted = {}
  /\ calls = 0
  /\ inflight = Idle
  /\ resp = NoResponse
  /\ served = NothingServed
  /\ scenario = 0
  /\ twin = NoTwin
  /\ twinRet = RetUndefined
  /\ NoCanvas
  /\ NoOcr

\* POST /training-image: 400 without a file or a label, else the file is
\* moved to `${Date.now()}_${label sanitized}.png`
UploadTrainingImage(hasFile, label) ==
  /\ IF ~hasFile
     THEN /\ ocrResp' = OcrResponse(400, Message("No image file provided"))
          /\ files' = files
     ELSE IF label = << >>
     THEN /\ ocrResp' = OcrResponse(400,
                          Message("No label provided for training image"))
          /\ files' = files
     ELSE \E uniqueFilename \in
              {NumberToString(now) \o << "_" >> \o Sanitize(label) \o PngExtension} :
            /\ files' = files \cup {uniqueFilename}
            /\ ocrResp' = OcrResponse(200,
                 [kind |-> "uploaded", id |-> NumberToString(now),
                  filename |-> uniqueFilename, label |-> label])
  /\ UNCHANGED << noteVars, routeVars, twinVars, canvasVars >>

\* GET /training-images
GetTrainingImages ==
  /\ ocrResp' = OcrResponse(200,
       [kind |-> "list", count |-> Cardinality(TrainingImages(files)),
        trainingImages |-> TrainingImages(files)])
  /\ UNCHANGED << files, noteVars, routeVars, twinVars, canvasVars >>

\* DELETE /training-image/:id
DeleteTrainingImage(segment) ==
  /\ \E targets \in {TargetFiles(files, RouteParams(segment))} :
       IF targets = {}
       THEN /\ ocrResp' = OcrResponse(404, Message("Training image not found"))
            /\ files' = files
       ELSE \E targetFile \in targets :
              /\ files' = files \ {targetFile}
              /\ ocrResp' = OcrResponse(200,
                   [kind |-> "deleted", segment |-> segment,
                    imageId |-> ParamText(RouteParams(segment), "imageId")])
  /\ UNCHANGED << noteVars, routeVars, twinVars, canvasVars >>

UploadCall ==
  \E hasFile \in BOOLEAN, label \in Labels : UploadTrainingImage(hasFile, label)

DeleteCall == \E segment \in Segments : DeleteTrainingImage(segment)

NextOcr ==
  \/ Tick
  \/ UploadCall
  \/ GetTrainingImages
  \/ DeleteCall

SpecOcr == InitOcr /\ [][NextOcr]_vars

\* C30: for a training image that was uploaded and is in the training-data
\* directory, DELETE /training-image/:id with the image's id removes the file
\* and answers 200, and GET /training-images no longer lists the image; the
\* answer is 404 only when no file with that id exists
C30_DeleteRemovesUploadedImage ==
  [][\A segment \in Segments :
       (/\ ocrResp'.body.kind \in {"deleted", "message"}
        /\ ocrResp'.status \in {200, 404}
        /\ DeleteTrainingImage(segment))
       => LET held == {f \in files : Matches(f) /\ TrainingImage(f).id = segment}
          IN /\ held # {} =>
                  /\ ocrResp'.status = 200
                  /\ \E f \in held :
                       /\ files' = files \ {f}
                       /\ TrainingImage(f) \notin TrainingImages(files')
             /\ ocrResp'.status = 404 => held = {} ]_vars

====
